---- MODULE Spec2Model ----
(***************************************************************************)
(* Model of gptcli/assistant.py: assistant profile lookup and merge        *)
(* (Assistant.from_config), layered field resolution (init_assistant),     *)
(* provider inference and dispatch, endpoint / credential resolution and   *)
(* parameter assembly (Assistant.complete_chat), and the seed-message      *)
(* copy (Assistant.init_messages).                                         *)
(*                                                                         *)
(* Python objects are modelled on two heaps: `dicts` holds the dict        *)
(* objects (profile configs and Assistant configs) and `lists` the list    *)
(* objects (seed messages), each indexed by address, so that aliasing      *)
(* through shallow copies is visible.  A Message dict is an immutable      *)
(* token (a string naming it): only the sequences holding them change.     *)
(*                                                                         *)
(* A value of a config field is a cell [none, v]: Python None is           *)
(* none = TRUE; a missing key is a key outside the DOMAIN of the config.   *)
(* Strings are TLA+ strings, so prefix and substring tests are computed    *)
(* on characters.  temperature and top_p are counted in tenths (0.7 is 7). *)
(* Inputs follow the declared types (AssistantConfig, AssistantGlobalArgs, *)
(* GlobalDefaults): only the Optional fields range over None.              *)
(***************************************************************************)
EXTENDS Naturals, Sequences, FiniteSets, TLC

VARIABLES
    dicts,              \* heap of dict objects: address -> config
    lists,              \* heap of list objects: address -> sequence of messages
    custom_assistants,  \* the caller's map: profile name -> address of its config
    assistants,         \* the Assistant objects created so far
    held,               \* address of the list init_messages handed to the caller, 0 before
    mutated,            \* the caller has mutated a list it was handed (history)
    last,               \* outcome of the last operation
    exited,             \* sys.exit was called
    orig                \* the heaps as they were before any operation (history)

vars == <<dicts, lists, custom_assistants, assistants, held, mutated, last, exited, orig>>

-----------------------------------------------------------------------------
(* Values *)

Str(s) == [none |-> FALSE, v |-> s]
NoneStr == [none |-> TRUE, v |-> ""]
Num(n) == [none |-> FALSE, v |-> n]
NoneNum == [none |-> TRUE, v |-> 0]
Ref(a) == [none |-> FALSE, v |-> a]

NumKeys == {"messages", "temperature", "top_p", "thinking_budget"}

NoneOf(key) == IF key \in NumKeys THEN NoneNum ELSE NoneStr

EmptyDict == [k \in {} |-> k]

\* dict.get(key): None when the key is missing
Get(config, key) == IF key \in DOMAIN config THEN config[key] ELSE NoneOf(key)

\* Python truthiness of an Optional[str]
Truthy(cell) == ~cell.none /\ cell.v # ""

\* config[key] = value
SetItem(config, key, cell) ==
    [k \in DOMAIN config \cup {key} |-> IF k = key THEN cell ELSE config[k]]

\* str.startswith
startswith(s, p) == Len(s) >= Len(p) /\ SubSeq(s, 1, Len(p)) = p

\* `sub in s` for strings
contains(s, sub) ==
    \E i \in 1..(Len(s) + 1) :
        /\ i + Len(sub) - 1 <= Len(s)
        /\ SubSeq(s, i, i + Len(sub) - 1) = sub

RECURSIVE join(_, _)
join(sep, seq) ==
    IF seq = << >> THEN ""
    ELSE IF Len(seq) = 1 THEN seq[1]
    ELSE seq[1] \o sep \o join(sep, Tail(seq))

MaxOf(S) == CHOOSE x \in S : \A y \in S : y <= x

\* the address of a newly allocated object
NewAddr(heap) == IF DOMAIN heap = {} THEN 1 ELSE MaxOf(DOMAIN heap) + 1

-----------------------------------------------------------------------------
(* Module-level data *)

CONFIG_DEFAULTS ==
    [provider |-> Str("openai"), model |-> Str("gpt-4o"),
     temperature |-> Num(7), top_p |-> Num(10)]

PROVIDERS == {"openai", "anthropic", "google", "cohere", "llama", "azure-openai"}

\* sorted(PROVIDERS)
SortedProviders == <<"anthropic", "azure-openai", "cohere", "google", "llama", "openai">>

\* DEFAULT_ASSISTANTS: name -> address of the built-in config dict
DEFAULT_ASSISTANTS == [dev |-> 1, general |-> 2, bash |-> 3]

\* the built-in config dicts; their "messages" are the lists at addresses 1..3
BuiltinDicts ==
    (1 :> [messages |-> Ref(1)]) @@ (2 :> [messages |-> Ref(2)]) @@ (3 :> [messages |-> Ref(3)])

BuiltinLists ==
    (1 :> <<"dev_system", "dev_user", "dev_assistant">>) @@ (2 :> << >>) @@ (3 :> <<"bash_system">>)

\* the order in which the model walks the keys of a dict
AllKeys ==
    <<"messages", "provider", "model", "base_url", "api_key",
      "openai_base_url_override", "openai_api_key_override",
      "anthropic_base_url_override", "anthropic_api_key_override",
      "temperature", "top_p", "thinking_budget">>

\* list(config.keys())
KeysOf(config) == SelectSeq(AllKeys, LAMBDA k : k \in DOMAIN config)

-----------------------------------------------------------------------------
(* Pure functions *)

\* infer_provider_from_model, were the o1/o3/o4 rules one rule for "o"
infer_provider_from_model_o(model) ==
    IF \/ startswith(model, "gpt")
       \/ startswith(model, "ft:gpt")
       \/ startswith(model, "chatgpt")
       \/ startswith(model, "o")
    THEN Str("openai")
    ELSE IF startswith(model, "oai-azure:") THEN Str("azure-openai")
    ELSE IF startswith(model, "claude") \/ startswith(model, "anthropic:") THEN Str("anthropic")
    ELSE IF startswith(model, "llama") THEN Str("llama")
    ELSE IF startswith(model, "command") \/ startswith(model, "c4ai") THEN Str("cohere")
    ELSE IF startswith(model, "gemini") \/ startswith(model, "gemma") THEN Str("google")
    ELSE NoneStr

infer_provider_from_model(model) ==
    IF \/ startswith(model, "gpt")
       \/ startswith(model, "ft:gpt")
       \/ startswith(model, "oai-compat:")
       \/ startswith(model, "openai:")
       \/ startswith(model, "chatgpt")
       \/ startswith(model, "o1")
       \/ startswith(model, "o3")
       \/ startswith(model, "o4")
    THEN Str("openai")
    ELSE IF startswith(model, "oai-azure:") THEN Str("azure-openai")
    ELSE IF startswith(model, "claude") \/ startswith(model, "anthropic:") THEN Str("anthropic")
    ELSE IF startswith(model, "llama") THEN Str("llama")
    ELSE IF startswith(model, "command") \/ startswith(model, "c4ai") THEN Str("cohere")
    ELSE IF startswith(model, "gemini") \/ startswith(model, "gemma") THEN Str("google")
    ELSE NoneStr

NoInstance == [kind |-> "", base_url |-> NoneStr, api_key |-> NoneStr]

\* a provider object: only openai and anthropic receive base_url and api_key
Instance(kind, base_url, api_key) ==
    [kind |-> kind, base_url |-> base_url, api_key |-> api_key]

\* get_completion_provider, were an unknown identifier served by the default provider
get_completion_provider_lenient(provider, base_url, api_key) ==
    IF provider = "anthropic"
    THEN [raised |-> FALSE, error |-> "", instance |-> Instance("anthropic", base_url, api_key)]
    ELSE IF provider \in {"azure-openai", "llama", "cohere", "google"}
    THEN [raised |-> FALSE, error |-> "", instance |-> Instance(provider, NoneStr, NoneStr)]
    ELSE [raised |-> FALSE, error |-> "", instance |-> Instance("openai", base_url, api_key)]

get_completion_provider(provider, base_url, api_key) ==
    IF provider = "openai"
    THEN [raised |-> FALSE, error |-> "", instance |-> Instance("openai", base_url, api_key)]
    ELSE IF provider = "azure-openai"
    THEN [raised |-> FALSE, error |-> "", instance |-> Instance("azure-openai", NoneStr, NoneStr)]
    ELSE IF provider = "anthropic"
    THEN [raised |-> FALSE, error |-> "", instance |-> Instance("anthropic", base_url, api_key)]
    ELSE IF provider = "llama"
    THEN [raised |-> FALSE, error |-> "", instance |-> Instance("llama", NoneStr, NoneStr)]
    ELSE IF provider = "cohere"
    THEN [raised |-> FALSE, error |-> "", instance |-> Instance("cohere", NoneStr, NoneStr)]
    ELSE IF provider = "google"
    THEN [raised |-> FALSE, error |-> "", instance |-> Instance("google", NoneStr, NoneStr)]
    ELSE [raised |-> TRUE,
          error |-> "Unknown provider: " \o provider \o ". Valid providers: "
                        \o join(", ", SortedProviders),
          instance |-> NoInstance]

-----------------------------------------------------------------------------
(* Assistant *)

\* the loop of from_config over [*config.keys(), *default_config.keys()];
\* raised is the KeyError of default_config[key]
RECURSIVE merge_loop(_, _, _)
merge_loop(keys, config, default_config) ==
    IF keys = << >> THEN [raised |-> FALSE, config |-> config]
    ELSE IF Get(config, Head(keys)).none
         THEN IF Head(keys) \in DOMAIN default_config
              THEN merge_loop(Tail(keys),
                              SetItem(config, Head(keys), default_config[Head(keys)]),
                              default_config)
              ELSE [raised |-> TRUE, config |-> config]
         ELSE merge_loop(Tail(keys), config, default_config)

\* Assistant.from_config on the contents of the (copied) config; builtins is
\* DEFAULT_ASSISTANTS with its dicts read from the heap
from_config(name, config, builtins) ==
    IF name \in DOMAIN builtins
    THEN merge_loop(KeysOf(config) \o KeysOf(builtins[name]), config, builtins[name])
    ELSE [raised |-> FALSE, config |-> config]

\* config.copy(): the address of the dict the new Assistant owns
config_copy(heap, addr) == NewAddr(heap)

_param(config, param) ==
    IF param \in DOMAIN config THEN config[param]
    ELSE IF param \in DOMAIN CONFIG_DEFAULTS THEN CONFIG_DEFAULTS[param]
    ELSE NoneOf(param)

\* _resolve_provider, were the inference tried before the explicit provider
_resolve_provider_inferred_first(config, model) ==
    IF Truthy(infer_provider_from_model(model)) THEN infer_provider_from_model(model).v
    ELSE IF Truthy(Get(config, "provider")) THEN Get(config, "provider").v
    ELSE CONFIG_DEFAULTS["provider"].v

_resolve_provider(config, model) ==
    IF Truthy(Get(config, "provider")) THEN Get(config, "provider").v
    ELSE IF Truthy(infer_provider_from_model(model)) THEN infer_provider_from_model(model).v
    ELSE CONFIG_DEFAULTS["provider"].v

_resolve_base_url(config, provider) ==
    IF Truthy(Get(config, "base_url")) THEN Get(config, "base_url")
    ELSE IF provider = "openai" THEN Get(config, "openai_base_url_override")
    ELSE IF provider = "anthropic" THEN Get(config, "anthropic_base_url_override")
    ELSE NoneStr

\* _resolve_api_key, were the legacy field tried first
_resolve_api_key_legacy_first(config, provider) ==
    IF provider = "openai" /\ Truthy(Get(config, "openai_api_key_override"))
    THEN Get(config, "openai_api_key_override")
    ELSE IF provider = "anthropic" /\ Truthy(Get(config, "anthropic_api_key_override"))
    THEN Get(config, "anthropic_api_key_override")
    ELSE IF Truthy(Get(config, "api_key")) THEN Get(config, "api_key")
    ELSE NoneStr

_resolve_api_key(config, provider) ==
    IF Truthy(Get(config, "api_key")) THEN Get(config, "api_key")
    ELSE IF provider = "openai" THEN Get(config, "openai_api_key_override")
    ELSE IF provider = "anthropic" THEN Get(config, "anthropic_api_key_override")
    ELSE NoneStr

\* the gate of thinking_budget, were it a prefix test
thinking_gate_prefix(config, model) ==
    ~Get(config, "thinking_budget").none /\ startswith(model, "claude-3-7")

\* whether complete_chat adds thinking_budget to args
thinking_gate(config, model) ==
    ~Get(config, "thinking_budget").none /\ contains(model, "claude-3-7")

\* the args dict complete_chat assembles; float() keeps the number
chat_args(config, model) ==
    LET base == [model |-> Str(model),
                 temperature |-> _param(config, "temperature"),
                 top_p |-> _param(config, "top_p")]
    IN  IF thinking_gate(config, model)
        THEN SetItem(base, "thinking_budget", Get(config, "thinking_budget"))
        ELSE base

\* Assistant.complete_chat on the contents of the Assistant's config: what it
\* resolves, and the calls of a provider's complete() it makes
complete_chat(config) ==
    LET model == _param(config, "model").v
        provider == _resolve_provider(config, model)
        base_url == _resolve_base_url(config, provider)
        api_key == _resolve_api_key(config, provider)
        made == get_completion_provider(provider, base_url, api_key)
    IN  [model |-> model, provider |-> provider,
         base_url |-> base_url, api_key |-> api_key,
         raised |-> made.raised, error |-> made.error,
         calls |-> IF made.raised THEN << >>
                   ELSE << [instance |-> made.instance, args |-> chat_args(config, model)] >>]

\* init_messages, were it to return the config's own list
init_messages_no_copy(config, heap) ==
    IF "messages" \in DOMAIN config
    THEN [list |-> config["messages"].v, lists |-> heap]
    ELSE [list |-> NewAddr(heap), lists |-> heap @@ (NewAddr(heap) :> << >>)]

\* Assistant.init_messages: the list it returns and the heap of lists after it
init_messages(config, heap) ==
    LET new == NewAddr(heap)
        content == IF "messages" \in DOMAIN config THEN heap[config["messages"].v] ELSE << >>
    IN  [list |-> new, lists |-> heap @@ (new :> content)]

-----------------------------------------------------------------------------
(* init_assistant *)

NoGlobalDefaults == [given |-> FALSE, provider |-> NoneStr, model |-> NoneStr]
GlobalDefaults(provider, model) == [given |-> TRUE, provider |-> provider, model |-> model]

\* the global-defaults step, were it to overwrite
apply_global_defaults_overwrite(config, global_defaults) ==
    IF ~global_defaults.given THEN config
    ELSE LET c1 == IF Truthy(global_defaults.provider)
                   THEN SetItem(config, "provider", global_defaults.provider)
                   ELSE config
         IN  IF Truthy(global_defaults.model)
             THEN SetItem(c1, "model", global_defaults.model)
             ELSE c1

\* lines 253-258
apply_global_defaults(config, global_defaults) ==
    IF ~global_defaults.given THEN config
    ELSE LET c1 == IF Truthy(global_defaults.provider) /\ Get(config, "provider").none
                   THEN SetItem(config, "provider", global_defaults.provider)
                   ELSE config
         IN  IF Truthy(global_defaults.model) /\ Get(c1, "model").none
             THEN SetItem(c1, "model", global_defaults.model)
             ELSE c1

OverrideFields == <<"provider", "model", "temperature", "top_p", "thinking_budget">>

\* lines 260-270
RECURSIVE apply_overrides_from(_, _, _)
apply_overrides_from(fields, config, args) ==
    IF fields = << >> THEN config
    ELSE apply_overrides_from(
            Tail(fields),
            IF ~args[Head(fields)].none THEN SetItem(config, Head(fields), args[Head(fields)])
            ELSE config,
            args)

\* the override step, were it to fill only the fields still unset
apply_overrides_if_unset(config, args) ==
    [k \in DOMAIN config \cup {f \in DOMAIN args \ {"assistant_name"} : ~args[f].none} |->
        IF k \in DOMAIN args /\ k # "assistant_name" /\ ~args[k].none /\ Get(config, k).none
        THEN args[k] ELSE config[k]]

apply_overrides(config, args) == apply_overrides_from(OverrideFields, config, args)

-----------------------------------------------------------------------------
(* State machine *)

\* an Assistant's config and seed messages, read through the heaps
Snapshot(ds, ls, addr) ==
    [config |-> ds[addr],
     messages |-> IF "messages" \in DOMAIN ds[addr] THEN ls[ds[addr]["messages"].v] ELSE << >>]

\* DEFAULT_ASSISTANTS with each built-in config read from the heap
Builtins == [n \in DOMAIN DEFAULT_ASSISTANTS |-> dicts[DEFAULT_ASSISTANTS[n]]]

NoOutcome == [op |-> "none"]

\* init_assistant(args, custom_assistants, global_defaults)
init_assistant(args, global_defaults) ==
    LET name == args.assistant_name
    IN  /\ ~exited
        /\ IF name \notin DOMAIN custom_assistants /\ name \notin DOMAIN DEFAULT_ASSISTANTS
           THEN /\ exited' = TRUE
                /\ last' = [op |-> "init_assistant", args |-> args, gd |-> global_defaults,
                            outcome |-> "SystemExit", asst |-> 0,
                            printed |-> "Unknown assistant: " \o name,
                            merged |-> EmptyDict, filled |-> EmptyDict]
                /\ UNCHANGED <<dicts, assistants>>
           ELSE LET source == IF name \in DOMAIN custom_assistants
                              THEN custom_assistants[name]
                              ELSE DEFAULT_ASSISTANTS[name]
                    own == config_copy(dicts, source)
                    merged == from_config(name, dicts[source], Builtins)
                    filled == apply_global_defaults(merged.config, global_defaults)
                    final == apply_overrides(filled, args)
                    after == [a \in DOMAIN dicts \cup {own} |->
                                IF a = own THEN final ELSE dicts[a]]
                IN  IF merged.raised
                    THEN /\ last' = [op |-> "init_assistant", args |-> args,
                                     gd |-> global_defaults,
                                     outcome |-> "KeyError", asst |-> 0, printed |-> "",
                                     merged |-> EmptyDict, filled |-> EmptyDict]
                         /\ UNCHANGED <<dicts, assistants, exited>>
                    ELSE /\ dicts' = after
                         /\ assistants' = Append(assistants,
                                [config |-> own, name |-> name, args |-> args,
                                 gd |-> global_defaults,
                                 born |-> Snapshot(after, lists, own)])
                         /\ last' = [op |-> "init_assistant", args |-> args,
                                     gd |-> global_defaults,
                                     outcome |-> "returned", asst |-> Len(assistants) + 1,
                                     printed |-> "",
                                     merged |-> merged.config, filled |-> filled]
                         /\ UNCHANGED exited
        /\ UNCHANGED <<lists, custom_assistants, held, mutated, orig>>

\* assistant.complete_chat(messages) on the i-th Assistant
CompleteChat(i) ==
    /\ ~exited
    /\ last' = [op |-> "complete_chat", asst |-> i,
                result |-> complete_chat(dicts[assistants[i].config])]
    /\ UNCHANGED <<dicts, lists, custom_assistants, assistants, held, mutated, exited, orig>>

\* whether a dict on the heap holds the list at addr
Referenced(addr) ==
    \E d \in DOMAIN dicts :
        "messages" \in DOMAIN dicts[d] /\ dicts[d]["messages"] = Ref(addr)

\* messages = assistant.init_messages(): the caller's variable is rebound, and
\* the list it held before is freed unless a config still holds it
InitMessages(i) ==
    LET kept == IF held = 0 \/ Referenced(held) THEN lists
                ELSE [a \in DOMAIN lists \ {held} |-> lists[a]]
        r == init_messages(dicts[assistants[i].config], kept)
    IN  /\ ~exited
        /\ lists' = r.lists
        /\ held' = r.list
        /\ last' = [op |-> "init_messages", asst |-> i, list |-> r.list]
        /\ UNCHANGED <<dicts, custom_assistants, assistants, mutated, exited, orig>>

MaxListLen == 4

\* the caller mutates the sequence it was handed
CallerMutates(content) ==
    /\ ~exited
    /\ held # 0
    /\ Len(content) <= MaxListLen
    /\ lists' = [lists EXCEPT ![held] = content]
    /\ mutated' = TRUE
    /\ last' = [op |-> "caller"]
    /\ UNCHANGED <<dicts, custom_assistants, assistants, held, exited, orig>>

\* messages.append(m)
CallerAppend == held # 0 /\ CallerMutates(Append(lists[held], "caller_msg"))

\* messages.pop()
CallerPop ==
    /\ held # 0
    /\ lists[held] # << >>
    /\ CallerMutates(SubSeq(lists[held], 1, Len(lists[held]) - 1))

\* messages[0] = m
CallerSetItem ==
    /\ held # 0
    /\ lists[held] # << >>
    /\ CallerMutates([lists[held] EXCEPT ![1] = "caller_msg"])

-----------------------------------------------------------------------------
(* Inputs *)

Opt(key, cells) == {EmptyDict} \cup {(key :> c) : c \in cells}
Cross(A, B) == {a @@ b : a \in A, b \in B}

CustomDictAddr == [dev |-> 4, mine |-> 5]
CustomListAddr == [dev |-> 4, mine |-> 5]
CustomMessages == [dev |-> <<"custom_dev_system">>, mine |-> <<"mine_system", "mine_user">>]

NoOverrides(name) ==
    [assistant_name |-> name, provider |-> NoneStr, model |-> NoneStr,
     temperature |-> NoneNum, top_p |-> NoneNum, thinking_budget |-> NoneNum]

\* the state after the modules are loaded and the caller built its profile map cm
InitWith(maps) ==
    \E cm \in maps :
        /\ custom_assistants = [n \in DOMAIN cm |-> CustomDictAddr[n]]
        /\ dicts = BuiltinDicts @@
                   [a \in {CustomDictAddr[n] : n \in DOMAIN cm} |->
                        cm[CHOOSE n \in DOMAIN cm : CustomDictAddr[n] = a]]
        /\ lists = BuiltinLists @@
                   [a \in {CustomListAddr[n] : n \in {m \in DOMAIN cm : "messages" \in DOMAIN cm[m]}} |->
                        CustomMessages[CHOOSE n \in DOMAIN cm : CustomListAddr[n] = a]]
        /\ assistants = << >>
        /\ held = 0
        /\ mutated = FALSE
        /\ last = NoOutcome
        /\ exited = FALSE
        /\ orig = [dicts |-> dicts, lists |-> lists, custom_assistants |-> custom_assistants]

(* Resolution: one init_assistant per invocation, then complete_chat *)

ResolveConfigs ==
    Cross(Cross(Cross(Opt("provider", {NoneStr, Str("anthropic"), Str("foo")}),
                      Opt("model", {Str("claude-3-7-sonnet")})),
                Opt("temperature", {Num(2)})),
          Opt("thinking_budget", {NoneNum, Num(2048)}))

ResolveMaps ==
    {EmptyDict} \cup {(n :> c) : n \in {"dev", "mine"}, c \in ResolveConfigs}

ResolveArgs ==
    [assistant_name : {"dev", "general", "mine", "nonexistent"},
     provider : {NoneStr, Str("openai"), Str("baz")},
     model : {NoneStr, Str("claude-3-5-haiku")},
     temperature : {NoneNum, Num(9)},
     top_p : {NoneNum, Num(5)},
     thinking_budget : {NoneNum, Num(1024)}]

ResolveGlobals ==
    {NoGlobalDefaults} \cup
    {GlobalDefaults(p, m) : p \in {NoneStr, Str("google"), Str("qux")},
                            m \in {NoneStr, Str("anthropic:claude-3-7-sonnet")}}

Init == InitWith(ResolveMaps)

\* the invocation resolves its Assistant once
Resolve ==
    /\ last = NoOutcome
    /\ \E args \in ResolveArgs, gd \in ResolveGlobals : init_assistant(args, gd)

Chat == \E i \in 1..Len(assistants) : CompleteChat(i)

Next == Resolve \/ Chat

Spec == Init /\ [][Next]_vars

(* Dispatch: a profile resolved as it is, then complete_chat *)

ChatModels ==
    {"gpt-4o", "ft:gpt-3.5-turbo:org", "oai-compat:mixtral", "openai:gpt-4", "chatgpt-4o-latest",
     "o1-mini", "o3", "o4-mini", "oai-azure:gpt-4", "claude-3-5-sonnet", "anthropic:claude-2",
     "llama-3-70b", "command-r", "c4ai-aya", "gemini-pro", "gemma-2",
     "foo-bar", "mistral-large", "oai", "GPT-4", "my-gpt", ""}

InferenceConfigs ==
    Cross(Opt("provider", {NoneStr, Str(""), Str("cohere"), Str("foo")}),
          Opt("model", {Str(m) : m \in ChatModels}))

EndpointConfigs ==
    Cross(Cross(Cross(Opt("provider", {Str("openai"), Str("anthropic"), Str("google"),
                                       Str("azure-openai")}),
                      Opt("model", {Str("claude-3-5-sonnet")})),
                Cross(Cross(Opt("api_key", {NoneStr, Str(""), Str("k")}),
                            Opt("openai_api_key_override", {Str("ok")})),
                      Opt("anthropic_api_key_override", {Str("ak")}))),
          Cross(Cross(Opt("base_url", {NoneStr, Str(""), Str("u")}),
                      Opt("openai_base_url_override", {Str("ou")})),
                Opt("anthropic_base_url_override", {Str("au")})))

ChatMaps == {("mine" :> c) : c \in InferenceConfigs \cup EndpointConfigs}

InitChat == InitWith(ChatMaps)

ResolveChat ==
    /\ last = NoOutcome
    /\ init_assistant(NoOverrides("mine"), NoGlobalDefaults)

NextChat == ResolveChat \/ Chat

SpecChat == InitChat /\ [][NextChat]_vars

(* Sharing: several Assistants, their seed messages, and a caller that *)
(* mutates the lists it is handed                                      *)

MaxAssistants == 2

HeapMaps ==
    {EmptyDict,
     ("dev" :> [temperature |-> Num(2)]),
     ("dev" :> [messages |-> Ref(CustomListAddr["dev"])]),
     ("dev" :> [provider |-> NoneStr]),
     ("mine" :> [messages |-> Ref(CustomListAddr["mine"]), provider |-> Str("anthropic")]),
     ("dev" :> [temperature |-> Num(2)]) @@ ("mine" :> [messages |-> Ref(CustomListAddr["mine"])])}

HeapCalls ==
    {<<NoOverrides("dev"), NoGlobalDefaults>>,
     <<[NoOverrides("dev") EXCEPT !.provider = Str("openai")],
       GlobalDefaults(Str("google"), NoneStr)>>,
     <<[NoOverrides("mine") EXCEPT !.temperature = Num(9)], NoGlobalDefaults>>,
     <<NoOverrides("general"), GlobalDefaults(Str("google"), Str("gemini-pro"))>>}

InitHeap == InitWith(HeapMaps)

ResolveHeap ==
    /\ Len(assistants) < MaxAssistants
    /\ \E c \in HeapCalls : init_assistant(c[1], c[2])

Messages == \E i \in 1..Len(assistants) : InitMessages(i)

NextHeap == ResolveHeap \/ Chat \/ Messages \/ CallerAppend \/ CallerPop \/ CallerSetItem

SpecHeap == InitHeap /\ [][NextHeap]_vars

-----------------------------------------------------------------------------
(* Properties of the resolution *)

\* the same key with the same value, or missing in both
SameField(c1, c2, k) ==
    /\ k \in DOMAIN c1 <=> k \in DOMAIN c2
    /\ k \in DOMAIN c1 => c1[k] = c2[k]

KeySet == {AllKeys[i] : i \in 1..Len(AllKeys)}
OverrideSet == {OverrideFields[i] : i \in 1..Len(OverrideFields)}

Returned == last.op = "init_assistant" /\ last.outcome = "returned"
Chatted == last.op = "complete_chat"

\* the config of the i-th Assistant
ConfigOf(i) == dicts[assistants[i].config]

\* the profile configs as the caller and the module supplied them
CustomOf(name) == orig.dicts[custom_assistants[name]]
BuiltinOf(name) == BuiltinDicts[DEFAULT_ASSISTANTS[name]]

\* C1: after init_assistant returns, every field of provider, model,
\* temperature, top_p and thinking_budget that the overrides hold (not none)
\* has exactly the override's value in the Assistant's config, whatever the
\* profile and the global defaults set; a field the overrides leave out keeps
\* the value (or the absence) it had after the profile and global-defaults steps.
C1_OverridesWin ==
    Returned =>
        \A f \in OverrideSet :
            IF ~last.args[f].none
            THEN f \in DOMAIN ConfigOf(last.asst) /\ ConfigOf(last.asst)[f] = last.args[f]
            ELSE SameField(ConfigOf(last.asst), last.filled, f)

\* an override replaces a provider the profile set, over a global default that
\* differs from both, while the profile's temperature is kept
C1_Witness ==
    /\ Returned
    /\ last.args.provider = Str("openai")
    /\ Get(last.filled, "provider") = Str("anthropic")
    /\ last.gd.provider = Str("google")
    /\ last.args.temperature.none
    /\ Get(ConfigOf(last.asst), "temperature") = Num(2)
    /\ ConfigOf(last.asst)["provider"] = Str("openai")

\* C2: global defaults only fill gaps. A provider or model the merged profile
\* config holds survives the global-defaults step and, when the overrides do
\* not set it, is the resolved value; the step writes the global default only
\* into a provider or model that is unset; it changes no other field.
C2_GlobalDefaultsFillGaps ==
    Returned =>
        /\ \A k \in KeySet \ {"provider", "model"} : SameField(last.filled, last.merged, k)
        /\ \A f \in {"provider", "model"} :
            /\ ~Get(last.merged, f).none =>
                    /\ last.filled[f] = last.merged[f]
                    /\ last.args[f].none => ConfigOf(last.asst)[f] = last.merged[f]
            /\ ~SameField(last.filled, last.merged, f) =>
                    /\ last.gd.given
                    /\ Get(last.merged, f).none
                    /\ last.filled[f] = last.gd[f]

\* the profile's provider survives a different global default, and the same
\* global defaults fill the model the profile left unset
C2_Witness ==
    /\ Returned
    /\ Get(last.merged, "provider") = Str("anthropic")
    /\ last.gd.provider = Str("google")
    /\ last.args.provider.none /\ last.args.model.none
    /\ "model" \notin DOMAIN last.merged
    /\ last.gd.model = Str("anthropic:claude-3-7-sonnet")
    /\ ConfigOf(last.asst)["provider"] = Str("anthropic")
    /\ ConfigOf(last.asst)["model"] = Str("anthropic:claude-3-7-sonnet")
    /\ Get(last.merged, "temperature") = Num(2)

\* the first cell of a sequence that is not none
RECURSIVE FirstSet(_)
FirstSet(cells) ==
    IF Len(cells) = 1 \/ ~Head(cells).none THEN Head(cells) ELSE FirstSet(Tail(cells))

\* what each layer sets for field f of the Assistant a
OverrideLayer(a, f) == a.args[f]
GlobalLayer(a, f) == IF a.gd.given THEN a.gd[f] ELSE NoneStr
CustomLayer(a, f) ==
    IF a.name \in DOMAIN custom_assistants THEN Get(CustomOf(a.name), f) ELSE NoneStr
BuiltinLayer(a, f) ==
    IF a.name \in DOMAIN DEFAULT_ASSISTANTS THEN Get(BuiltinOf(a.name), f) ELSE NoneStr
StaticLayer(f) == CONFIG_DEFAULTS[f]

C4_MergeRule ==
    (last.op = "init_assistant" /\ last.args.assistant_name \in DOMAIN custom_assistants) =>
        LET name == last.args.assistant_name
            custom == CustomOf(name)
        IN  /\ last.outcome = "returned"
            /\ IF name \in DOMAIN DEFAULT_ASSISTANTS
               THEN /\ DOMAIN last.merged = DOMAIN custom \cup DOMAIN BuiltinOf(name)
                    /\ \A k \in DOMAIN last.merged :
                        last.merged[k] = IF ~Get(custom, k).none THEN custom[k]
                                         ELSE Get(BuiltinOf(name), k)
               ELSE last.merged = custom

\* C5: init_assistant exits with "unknown assistant" exactly when the name is
\* a key of neither map, producing no Assistant and running no later step;
\* in every other case an Assistant is returned.
C5_UnknownAssistant ==
    last.op = "init_assistant" =>
        LET known == \/ last.args.assistant_name \in DOMAIN custom_assistants
                     \/ last.args.assistant_name \in DOMAIN DEFAULT_ASSISTANTS
        IN  /\ last.outcome = "SystemExit" <=> ~known
            /\ ~known => /\ exited
                         /\ assistants = << >>
                         /\ dicts = orig.dicts
                         /\ last.printed = "Unknown assistant: " \o last.args.assistant_name
            /\ known => last.outcome = "returned" /\ Len(assistants) = 1

\* C6: complete_chat calls a provider's complete() only when the resolved
\* provider is one of the six identifiers, and then exactly once on that
\* provider; for any other identifier the unknown-provider error is raised,
\* naming the identifier and the six valid ones, and no call is made.
C6_ClosedProviderSet ==
    Chatted =>
        IF last.result.provider \in PROVIDERS
        THEN /\ ~last.result.raised
             /\ Len(last.result.calls) = 1
             /\ last.result.calls[1].instance.kind = last.result.provider
        ELSE /\ last.result.raised
             /\ last.result.calls = << >>
             /\ contains(last.result.error, "Unknown provider: " \o last.result.provider)
             /\ \A p \in PROVIDERS : contains(last.result.error, p)

\* an identifier outside the set, here from the global defaults, is refused
C6_Witness ==
    /\ Chatted
    /\ last.result.provider = "qux"
    /\ assistants[last.asst].gd.provider = Str("qux")
    /\ last.result.raised
    /\ last.result.calls = << >>

\* C7: the bag handed to the provider holds thinking_budget exactly when the
\* Assistant's config holds a budget (not none) and the resolved model name
\* (the configured model, else "gpt-4o") contains "claude-3-7"; its value is
\* then the configured budget; the resolved provider plays no part.
C7_ThinkingBudgetGate ==
    (Chatted /\ last.result.calls # << >>) =>
        LET config == ConfigOf(last.asst)
            bag == last.result.calls[1].args
            model == IF "model" \in DOMAIN config THEN config["model"].v ELSE "gpt-4o"
        IN  /\ last.result.model = model
            /\ bag["model"] = Str(model)
            /\ "thinking_budget" \in DOMAIN bag <=>
                    /\ "thinking_budget" \in DOMAIN config
                    /\ ~config["thinking_budget"].none
                    /\ \E pre, post \in 0..Len(model) :
                            /\ pre + 10 + post = Len(model)
                            /\ SubSeq(model, pre + 1, pre + 10) = "claude-3-7"
            /\ "thinking_budget" \in DOMAIN bag =>
                    bag["thinking_budget"] = config["thinking_budget"]

\* the budget is handed to a provider other than anthropic, under a model
\* name that holds "claude-3-7" after a prefix
C7_Witness ==
    /\ Chatted
    /\ last.result.calls # << >>
    /\ last.result.provider = "openai"
    /\ last.result.model = "anthropic:claude-3-7-sonnet"
    /\ "thinking_budget" \in DOMAIN last.result.calls[1].args
    /\ last.result.calls[1].args["thinking_budget"] = Num(1024)

-----------------------------------------------------------------------------
(* Properties of sharing *)

\* the seed messages of the profile the Assistant a was resolved from
SeedOf(a) ==
    IF a.name \in DOMAIN custom_assistants /\ "messages" \in DOMAIN CustomOf(a.name)
    THEN orig.lists[CustomOf(a.name)["messages"].v]
    ELSE IF a.name \in DOMAIN DEFAULT_ASSISTANTS
    THEN orig.lists[BuiltinOf(a.name)["messages"].v]
    ELSE << >>

\* C8: no operation mutates shared profile data. The built-in profiles and
\* the caller's profile map (their dicts and their message lists) hold their
\* original contents; init_messages returns the profile's original seed
\* messages whatever the caller did to the lists returned before; and an
\* Assistant's config and seed messages stay as they were when it was
\* resolved, whatever is resolved after it.
C8_NoSharedMutation ==
    /\ custom_assistants = orig.custom_assistants
    /\ \A a \in DOMAIN orig.dicts : dicts[a] = orig.dicts[a]
    /\ \A a \in DOMAIN orig.lists : a \in DOMAIN lists /\ lists[a] = orig.lists[a]
    /\ \A i \in 1..Len(assistants) :
            /\ Snapshot(dicts, lists, assistants[i].config) = assistants[i].born
            /\ assistants[i].born.messages = SeedOf(assistants[i])
    /\ last.op = "init_messages" => lists[last.list] = SeedOf(assistants[last.asst])

\* two Assistants resolved from the same profile name hold different configs,
\* the caller has mutated a list it was handed, and a later init_messages
\* returns the seed messages
C8_Witness ==
    /\ Len(assistants) = 2
    /\ assistants[1].name = assistants[2].name
    /\ ConfigOf(1) # ConfigOf(2)
    /\ mutated
    /\ last.op = "init_messages"
    /\ lists[held] = <<"dev_system", "dev_user", "dev_assistant">>

-----------------------------------------------------------------------------
(* Properties of the dispatch *)

\* the model name complete_chat resolves for a config
ModelOf(config) == IF "model" \in DOMAIN config THEN config["model"].v ELSE "gpt-4o"

PrefixRules ==
    {<<"gpt", "openai">>, <<"ft:gpt", "openai">>, <<"oai-compat:", "openai">>,
     <<"openai:", "openai">>, <<"chatgpt", "openai">>, <<"o1", "openai">>,
     <<"o3", "openai">>, <<"o4", "openai">>, <<"oai-azure:", "azure-openai">>,
     <<"claude", "anthropic">>, <<"anthropic:", "anthropic">>, <<"llama", "llama">>,
     <<"command", "cohere">>, <<"c4ai", "cohere">>, <<"gemini", "google">>,
     <<"gemma", "google">>}

====
